---- MODULE Spec2Model ----
(***************************************************************************)
(* datematrix/core: the calendar clock (DateTime over a UTC instant and a  *)
(* time-zone view), the interval (Duration) and the layout engine          *)
(* (CalendarLayoutEngine.compute with the sortEntries comparator).         *)
(*                                                                         *)
(* Instants are epoch milliseconds, as in the source.  The model window    *)
(* is a few days around the epoch (January 1970), where the zones used     *)
(* below have a fixed offset, so the view of dayjs.tz is the instant       *)
(* shifted by the zone's offset.                                           *)
(***************************************************************************)
EXTENDS Integers, Sequences, FiniteSets, TLC

VARIABLES
    pool,       \* layout: which pool of entry references the domain layer owns, <<kind, entry zone, window zone>>
    entries,    \* layout: the caller's array handed to compute()
    duration,   \* layout: the display window handed to compute()
    args,       \* layout: the caller's array as it was when compute() was called
    state,      \* layout: the Map<id, LayoutState> compute() returned
    sorted,     \* layout: the array compute() iterated (the local `sorted`)
    pc,         \* position of the caller: "build" -> "done", or of the clock program
    rawA, rawB, \* clock: the milliseconds handed to the two constructors
    a, b,       \* clock: the two DateTime values
    cmp,        \* clock: the results of the comparisons of a with b
    iv,         \* interval: the clocks and Durations of the interval program and its results
    cal,        \* calendar: the clock of the calendar program, its arguments and its results
    eng         \* engine: the CalendarEngine's state and its last call, or the entry program's entries

vars == <<pool, entries, duration, args, state, sorted, pc, rawA, rawB, a, b, cmp, iv, cal, eng>>

layoutVars == <<pool, entries, duration, args, state, sorted>>
clockVars == <<rawA, rawB, a, b, cmp>>
otherVars == <<iv, cal, eng>>

----------------------------------------------------------------------------
(* Bounds of the model *)

\* longest array handed to compute()
MaxEntries == 3
\* last calendar day (relative to the epoch day) an entry of the grid pool may touch
MaxDay == 2
\* largest multiple of TIME_UNIT (either sign) around which raw milliseconds are drawn
MaxTick == 2

----------------------------------------------------------------------------
(* Units and arithmetic helpers *)

Max(x, y) == IF x >= y THEN x ELSE y
Min(x, y) == IF x <= y THEN x ELSE y

MS_PER_MINUTE == 60 * 1000
MS_PER_HOUR == 60 * MS_PER_MINUTE
MS_PER_DAY == 24 * MS_PER_HOUR

\* const TIME_UNIT = 5 * 60 * 1000
TIME_UNIT == 5 * 60 * 1000

\* Math.floor(x / y) for y > 0
Floor(x, y) == x \div y

\* dayjs absFloor(x / y): rounds toward zero
AbsFloor(x, y) == IF x < 0 THEN -((-x) \div y) ELSE x \div y

\* the JavaScript remainder x % y (sign of the dividend)
JsRem(x, y) == x - y * AbsFloor(x, y)

\* the earlier truncateTime: time - (time % TIME_UNIT)
truncateTimeRem(ms) == ms - JsRem(ms, TIME_UNIT)

\* truncateTime: Math.floor(ms / TIME_UNIT) * TIME_UNIT
truncateTime(ms) == Floor(ms, TIME_UNIT) * TIME_UNIT

----------------------------------------------------------------------------
(* Time zones and the dayjs view *)

SEOUL == "Asia/Seoul"
PRAGUE == "Europe/Prague"
UTCZONE == "UTC"
Zones == {UTCZONE, SEOUL, PRAGUE}

\* view.utcOffset() in minutes (fixed for these zones in January 1970)
utcOffset(tz) ==
    CASE tz = SEOUL -> 9 * 60
      [] tz = PRAGUE -> 1 * 60
      [] OTHER -> 0

\* new DateTime(ms, tz): utc = new UTC(truncateTime(ms)), view = dayjs(_ms).tz(tz)
DateTime(ms, tz) == [utc |-> truncateTime(ms), tz |-> tz]

\* DateTime.getTime()
getTime(d) == d.utc

\* the dayjs view of a DateTime: the instant and the zone's offset at it
View(d) == [ms |-> d.utc, off |-> utcOffset(d.tz)]

\* local wall-clock milliseconds of a view
LocalMs(v) == v.ms + v.off * MS_PER_MINUTE

\* dayjs startOf(unit) of a view, unit in {"minute", "hour", "day"}
DjStartOf(v, unit) ==
    LET size == CASE unit = "day" -> MS_PER_DAY
                  [] unit = "hour" -> MS_PER_HOUR
                  [] OTHER -> MS_PER_MINUTE
    IN [v EXCEPT !.ms = Floor(LocalMs(v), size) * size - v.off * MS_PER_MINUTE]

\* dayjs endOf(unit): the last millisecond of the unit
DjEndOf(v, unit) ==
    LET size == CASE unit = "day" -> MS_PER_DAY
                  [] unit = "hour" -> MS_PER_HOUR
                  [] OTHER -> MS_PER_MINUTE
    IN [v EXCEPT !.ms = DjStartOf(v, unit).ms + size - 1]

\* dayjs add(value, unit), unit in {"minute", "hour", "day", "week"}
DjAdd(v, value, unit) ==
    LET size == CASE unit = "week" -> 7 * MS_PER_DAY
                  [] unit = "day" -> MS_PER_DAY
                  [] unit = "hour" -> MS_PER_HOUR
                  [] OTHER -> MS_PER_MINUTE
    IN [v EXCEPT !.ms = v.ms + value * size]

\* dayjs this.diff(that, unit) without the float flag: day and week differences
\* are corrected by the zone delta, hour and minute differences are elapsed
\* time; the quotient is rounded toward zero (two views of zones with an
\* offset, or two views of UTC)
DjDiff(this, that, unit) ==
    LET zoneDelta == (that.off - this.off) * MS_PER_MINUTE
        d == this.ms - that.ms
    IN CASE unit = "day" -> AbsFloor(d - zoneDelta, MS_PER_DAY)
         [] unit = "hour" -> AbsFloor(d, MS_PER_HOUR)
         [] OTHER -> AbsFloor(d, MS_PER_MINUTE)

----------------------------------------------------------------------------
(* DateTime operations *)

\* DateTime.diff(other, unit = day)
diff(this, other, unit) ==
    IF unit = "day"
    THEN DjDiff(DjStartOf(View(this), "day"), DjStartOf(View(other), "day"), "day")
    ELSE DjDiff(View(this), View(other), unit)

\* DateTime.add(value, unit)
add(this, value, unit) == DateTime(DjAdd(View(this), value, unit).ms, this.tz)

\* DateTime.startOf(unit) / endOf(unit) for unit = day
startOf(this, unit) == DateTime(DjStartOf(View(this), unit).ms, this.tz)
endOf(this, unit) == DateTime(DjEndOf(View(this), unit).ms, this.tz)

\* the calendar day of the local view, counted from the epoch day
LocalDay(d) == Floor(LocalMs(View(d)), MS_PER_DAY)

----------------------------------------------------------------------------
(* UTC: comparisons on the absolute instant *)

\* the view of the UTC wrapper: dayjs(ms).utc()
UtcView(ms) == [ms |-> ms, off |-> 0]

\* UTC.isEqual(utc, unit): dayjs isSame, startOf(unit) <= other <= endOf(unit)
UTC_isEqual(x, y, unit) ==
    /\ DjStartOf(UtcView(x), unit).ms <= y
    /\ y <= DjEndOf(UtcView(x), unit).ms

\* UTC.isBefore(utc): dayjs isBefore(other, minute), endOf(minute) < other
UTC_isBefore(x, y) == DjEndOf(UtcView(x), "minute").ms < y

\* UTC.isAfter(utc): dayjs isAfter(other, minute), other < startOf(minute)
UTC_isAfter(x, y) == y < DjStartOf(UtcView(x), "minute").ms

UTC_isOnOrBefore(x, y) == UTC_isEqual(x, y, "minute") \/ UTC_isBefore(x, y)
UTC_isOnOrAfter(x, y) == UTC_isEqual(x, y, "minute") \/ UTC_isAfter(x, y)

\* a comparison that reads the local view (hour and minute of the wall clock)
\* instead of the instant
isBeforeLocal(this, other) ==
    LocalMs(View(this)) % MS_PER_DAY < LocalMs(View(other)) % MS_PER_DAY

\* DateTime.isEqual(other, unit = minute) and the four orderings
isEqual(this, other) == UTC_isEqual(this.utc, other.utc, "minute")
isBefore(this, other) == UTC_isBefore(this.utc, other.utc)
isOnOrBefore(this, other) == UTC_isOnOrBefore(this.utc, other.utc)
isAfter(this, other) == UTC_isAfter(this.utc, other.utc)
isOnOrAfter(this, other) == UTC_isOnOrAfter(this.utc, other.utc)

----------------------------------------------------------------------------
(* Duration *)

\* new Duration(start, end) throws when start.isAfter(end)
DurationThrows(start, end) == isAfter(start, end)
Duration(start, end) == [startDate |-> start, endDate |-> end]

\* toArray() with the operands of diff in the order of the earlier
\* getDateTimes(): start.diff(end, day)
toArraySwapped(d) ==
    LET days == diff(d.startDate, d.endDate, "day") + 1
    IN [i \in 1..Max(days, 1) |-> add(d.startDate, i - 1, "day")]

\* Duration.toArray(): max(end.diff(start, day) + 1, 1) days from start
toArray(d) ==
    LET days == diff(d.endDate, d.startDate, "day") + 1
    IN [i \in 1..Max(days, 1) |-> add(d.startDate, i - 1, "day")]

----------------------------------------------------------------------------
(* sortEntries and Array.prototype.sort *)

\* the comparator of the earlier utils: all-day first, then the start day,
\* then the later end day
sortEntriesAllDayFirst(entryA, entryB) ==
    IF entryA.allDay /\ ~entryB.allDay THEN -1
    ELSE IF ~entryA.allDay /\ entryB.allDay THEN 1
    ELSE IF diff(entryA.startDate, entryB.startDate, "day") # 0
         THEN diff(entryA.startDate, entryB.startDate, "day")
         ELSE diff(entryB.endDate, entryA.endDate, "day")

\* a comparator whose last key has its operands swapped: the earlier end first
sortEntriesEndAscending(entryA, entryB) ==
    LET dayDiff == diff(entryA.startDate, entryB.startDate, "day")
        hourDiff == diff(entryA.startDate, entryB.startDate, "hour")
    IN IF dayDiff # 0 THEN dayDiff
       ELSE IF entryA.allDay /\ ~entryB.allDay THEN -1
       ELSE IF ~entryA.allDay /\ entryB.allDay THEN 1
       ELSE IF hourDiff # 0 THEN hourDiff
       ELSE diff(entryA.endDate, entryB.endDate, "hour")

\* sortEntries(entryA, entryB)
sortEntries(entryA, entryB) ==
    LET dayDiff == diff(entryA.startDate, entryB.startDate, "day")
        hourDiff == diff(entryA.startDate, entryB.startDate, "hour")
    IN IF dayDiff # 0 THEN dayDiff
       ELSE IF entryA.allDay /\ ~entryB.allDay THEN -1
       ELSE IF ~entryA.allDay /\ entryB.allDay THEN 1
       ELSE IF hourDiff # 0 THEN hourDiff
       ELSE diff(entryB.endDate, entryA.endDate, "hour")

\* arr with its first n elements reversed
ReverseRange(arr, n) ==
    [i \in 1..Len(arr) |-> IF i <= n THEN arr[n + 1 - i] ELSE arr[i]]

\* the loop of CountAndMakeRun: idx is the 1-based index of the element
\* compared with its predecessor; the value is the length of the run
RECURSIVE RunLength(_, _, _)
RunLength(arr, idx, isDescending) ==
    IF idx > Len(arr) THEN idx - 1
    ELSE LET o == sortEntries(arr[idx], arr[idx - 1])
         IN IF (isDescending /\ o >= 0) \/ (~isDescending /\ o < 0)
            THEN idx - 1
            ELSE RunLength(arr, idx + 1, isDescending)

\* CountAndMakeRun on an array of at least two elements: the leading run,
\* reversed in place when it is strictly descending
CountAndMakeRun(arr) ==
    LET isDescending == sortEntries(arr[2], arr[1]) < 0
        runLength == RunLength(arr, 3, isDescending)
    IN [arr |-> IF isDescending THEN ReverseRange(arr, runLength) ELSE arr,
        runLength |-> runLength]

\* the binary search of BinaryInsertionSort (0-based left and right)
RECURSIVE InsertionPoint(_, _, _, _)
InsertionPoint(arr, pivot, left, right) ==
    IF left >= right THEN left
    ELSE LET mid == left + ((right - left) \div 2)
         IN IF sortEntries(pivot, arr[mid + 1]) < 0
            THEN InsertionPoint(arr, pivot, left, mid)
            ELSE InsertionPoint(arr, pivot, mid + 1, right)

\* arr with the element at 0-based index start moved to 0-based index left
MoveTo(arr, start, left) ==
    [i \in 1..Len(arr) |->
        IF i - 1 < left \/ i - 1 > start THEN arr[i]
        ELSE IF i - 1 = left THEN arr[start + 1]
        ELSE arr[i - 1]]

\* BinaryInsertionSort(low = 0, start, high = length)
RECURSIVE BinaryInsertionSort(_, _)
BinaryInsertionSort(arr, start) ==
    IF start >= Len(arr) THEN arr
    ELSE LET left == InsertionPoint(arr, arr[start + 1], 0, start)
         IN BinaryInsertionSort(MoveTo(arr, start, left), start + 1)

\* Array.prototype.sort(sortEntries) as the engine the tests run on sorts an
\* array shorter than 64: one run, extended by binary insertion
ArraySort(arr) ==
    IF Len(arr) < 2 THEN arr
    ELSE LET run == CountAndMakeRun(arr)
         IN IF run.runLength < Len(arr)
            THEN BinaryInsertionSort(run.arr, run.runLength)
            ELSE run.arr

----------------------------------------------------------------------------
(* CalendarLayoutEngine.compute *)

\* the earlier span length: clipped to the window length only
SpanLengthUnclipped(span, dur, startPos, rangeLength) ==
    Min(diff(span.endDate, span.startDate, "day") + 1, rangeLength)

\* spanLength of one entry
SpanLength(span, dur, startPos, rangeLength) ==
    IF startPos < 0
    THEN Min(diff(span.endDate, dur.startDate, "day") + 1, rangeLength)
    ELSE Min(diff(span.endDate, span.startDate, "day") + 1, rangeLength - startPos)

\* the earlier loop condition: startPos <= lastEndOfLevel[level]
LevelTakenInclusive(startPos, lastEnd) == startPos <= lastEnd

\* the loop condition: the lane is still occupied at startPos
LevelTaken(startPos, lastEnd) == startPos < lastEnd

\* a lane choice that never reuses a lane: every entry opens a new one
FindLevelNewLane(lastEndOfLevel, startPos, level) == Len(lastEndOfLevel)

\* while (level < lastEndOfLevel.length && taken) level += 1  (0-based level)
RECURSIVE FindLevel(_, _, _)
FindLevel(lastEndOfLevel, startPos, level) ==
    IF level < Len(lastEndOfLevel) /\ LevelTaken(startPos, lastEndOfLevel[level + 1])
    THEN FindLevel(lastEndOfLevel, startPos, level + 1)
    ELSE level

\* the earlier lane end: the span length alone
LaneEndSpanOnly(startPos, spanLength) == spanLength

\* the value stored in lastEndOfLevel[level]
LaneEnd(startPos, spanLength) == Max(startPos, 0) + spanLength

\* a position recorded without the clamp
RecordedStartRaw(startPos) == startPos

\* the startPos recorded in the LayoutState
RecordedStart(startPos) == Max(startPos, 0)

\* the body of the for loop for the i-th entry of the sorted array, then the rest
RECURSIVE Place(_, _, _, _, _, _)
Place(arr, i, lastEndOfLevel, st, dur, rangeLength) ==
    IF i > Len(arr) THEN st
    ELSE LET span == arr[i]
             startPos == diff(span.startDate, dur.startDate, "day")
             spanLength == SpanLength(span, dur, startPos, rangeLength)
             level == FindLevel(lastEndOfLevel, startPos, 0)
             ends == IF level = Len(lastEndOfLevel)
                     THEN Append(lastEndOfLevel, LaneEnd(startPos, spanLength))
                     ELSE [lastEndOfLevel EXCEPT ![level + 1] = LaneEnd(startPos, spanLength)]
             rec == [id |-> span.id,
                     startPos |-> RecordedStart(startPos),
                     spanLength |-> spanLength,
                     stackLevel |-> level]
             \* Map.set: a later entry with the same id replaces the earlier one
             st2 == [k \in (DOMAIN st) \cup {span.id} |->
                        IF k = span.id THEN rec ELSE st[k]]
         IN Place(arr, i + 1, ends, st2, dur, rangeLength)

\* compute(entries, duration): the map returned for the array as sorted
compute(sortedArr, dur) ==
    Place(sortedArr, 1, <<>>, <<>>, dur, Len(toArray(dur)))

----------------------------------------------------------------------------
(* The inputs of the layout engine *)

\* the DateTime whose local view in tz reads day `day` (from the epoch day)
\* and minute `minute` of that day
At(day, minute, tz) ==
    DateTime(day * MS_PER_DAY + (minute - utcOffset(tz)) * MS_PER_MINUTE, tz)

\* an EngineEntryRef
EntryRef(id, startDate, endDate, allDay) ==
    [id |-> id, startDate |-> startDate, endDate |-> endDate, allDay |-> allDay]

\* first calendar day of the day ranges of the grid pool: the day before the
\* window
MinDay == 0 - 1

\* an all-day entry of one day that ends two days before the window starts
EarlyEntry(tz) ==
    EntryRef(9999, At(MinDay - 1, 0, tz), At(MinDay - 1, 23 * 60 + 55, tz), TRUE)

\* an all-day entry of two days that ends the day before the window starts
EarlySpan(tz) ==
    EntryRef(9998, At(MinDay - 1, 0, tz), At(MinDay, 23 * 60 + 55, tz), TRUE)

\* all-day entries over every range of days MinDay..MaxDay, and the early ones
GridPool(tz) ==
    {EntryRef((i - MinDay) * 100 + (j - MinDay),
              At(i, 0, tz), At(j, 23 * 60 + 55, tz), TRUE) :
        <<i, j>> \in {p \in (MinDay..MaxDay) \X (MinDay..MaxDay) : p[1] <= p[2]}}
    \cup {EarlyEntry(tz), EarlySpan(tz)}

\* the display window of the grid pool: days 0 .. MaxDay - 1
GridWindow(tz) ==
    Duration(startOf(At(0, 12 * 60, tz), "day"), endOf(At(MaxDay - 1, 12 * 60, tz), "day"))

\* minutes of the day at which entries of the hours pool start and end
StartMinutes == {8 * 60, 8 * 60 + 55, 9 * 60 + 50}
EndMinutes == {10 * 60, 10 * 60 + 55}

\* entries of one calendar day (day 0) that differ in start time, end time
\* and all-day flag
HoursPool(tz) ==
    {EntryRef(s * 10000 + e * 2 + (IF f THEN 1 ELSE 0),
              At(0, s, tz), At(0, e, tz), f) :
        <<s, e, f>> \in StartMinutes \X EndMinutes \X BOOLEAN}

\* the entries A[day0, day2], B[day0, day4], C[day4, day4] of the scenario
ScenarioA(tz) == EntryRef(1, At(0, 0, tz), At(2, 0, tz), TRUE)
ScenarioB(tz) == EntryRef(2, At(0, 0, tz), At(4, 0, tz), TRUE)
ScenarioC(tz) == EntryRef(3, At(4, 0, tz), At(4, 0, tz), TRUE)
ScenarioPool(tz) == {ScenarioA(tz), ScenarioB(tz), ScenarioC(tz)}

\* the 7-day window starting at day 0: now.duration(week, ws)
WeekWindow(tz) ==
    Duration(startOf(At(0, 12 * 60, tz), "day"), endOf(At(6, 12 * 60, tz), "day"))

\* entries of days 0 and 1, all-day and timed, starting at 00:00 or 09:00 and
\* ending at 23:55 of their day
MixedPool(tz) ==
    {EntryRef(d * 10000 + m * 2 + (IF f THEN 1 ELSE 0),
              At(d, m, tz), At(d, 23 * 60 + 55, tz), f) :
        <<d, m, f>> \in {0, 1} \X {0, 9 * 60} \X BOOLEAN}

\* the input families: the kind of pool, the zone its entries are built in
\* and the zone the display window is built in
Cases ==
    {<<"grid", SEOUL, SEOUL>>, <<"hours", PRAGUE, PRAGUE>>,
     <<"mixed", PRAGUE, SEOUL>>,
     <<"scenario", UTCZONE, UTCZONE>>, <<"scenario", SEOUL, PRAGUE>>}

PoolOf(c) ==
    CASE c[1] = "grid" -> GridPool(c[2])
      [] c[1] = "hours" -> HoursPool(c[2])
      [] c[1] = "mixed" -> MixedPool(c[2])
      [] OTHER -> ScenarioPool(c[2])

WindowOf(c) ==
    CASE c[1] = "scenario" -> WeekWindow(c[3])
      [] OTHER -> GridWindow(c[3])

Ids(arr) == {arr[i].id : i \in 1..Len(arr)}

----------------------------------------------------------------------------
(* The layout program: a caller fills an array and calls compute() once *)

NoClock == DateTime(0, UTCZONE)

InitLayout ==
    /\ \E c \in Cases :
          /\ pool = c
          /\ duration = WindowOf(c)
    /\ entries = <<>>
    /\ args = <<>>
    /\ state = <<>>
    /\ sorted = <<>>
    /\ pc = "build"
    /\ rawA = 0 /\ rawB = 0 /\ a = NoClock /\ b = NoClock /\ cmp = <<>>
    /\ iv = <<>> /\ cal = <<>> /\ eng = <<>>

\* entries.push(entry)
Push(e) ==
    /\ pc = "build"
    /\ Len(entries) < MaxEntries
    /\ e.id \notin Ids(entries)
    /\ entries' = Append(entries, e)
    /\ UNCHANGED <<pool, duration, args, state, sorted, pc>>
    /\ UNCHANGED clockVars
    /\ UNCHANGED otherVars

\* engine.compute(entries, duration)
Compute ==
    /\ pc = "build"
    /\ args' = entries
    /\ entries' = ArraySort(entries)
    /\ sorted' = entries'
    /\ state' = compute(entries', duration)
    /\ pc' = "done"
    /\ UNCHANGED <<pool, duration>>
    /\ UNCHANGED clockVars
    /\ UNCHANGED otherVars

NextLayout ==
    \/ \E e \in PoolOf(pool) : Push(e)
    \/ Compute

Spec == InitLayout /\ [][NextLayout]_vars

----------------------------------------------------------------------------
(* Properties of compute() *)

Done == pc = "done"

\* the half-open range [startPos, startPos + spanLength) of a LayoutState
RangeOf(r) == r.startPos .. (r.startPos + r.spanLength - 1)

\* the calendar days of the window and of an entry, each in its own local view
WinFirst == LocalDay(duration.startDate)
WinLast == LocalDay(duration.endDate)
FirstDay(e) == LocalDay(e.startDate)
LastDay(e) == LocalDay(e.endDate)
DaysOf(e) == FirstDay(e) .. LastDay(e)
Intersects(e) == LastDay(e) >= WinFirst /\ FirstDay(e) <= WinLast

ArgSet == {args[i] : i \in 1..Len(args)}

\* C1: after compute(), two distinct entries that received the same stackLevel
\* have disjoint ranges [startPos, startPos + spanLength)
C1_SameLaneDisjoint ==
    Done =>
        \A i \in DOMAIN state : \A j \in DOMAIN state :
            (i # j /\ state[i].stackLevel = state[j].stackLevel)
                => RangeOf(state[i]) \cap RangeOf(state[j]) = {}

\* two entries with non-empty ranges share a lane while a third lies in another lane
C1_Witness ==
    /\ Done
    /\ \E i \in DOMAIN state : \E j \in DOMAIN state : \E k \in DOMAIN state :
          /\ i # j
          /\ state[i].stackLevel = state[j].stackLevel
          /\ state[i].spanLength >= 1 /\ state[j].spanLength >= 1
          /\ state[k].stackLevel # state[i].stackLevel

\* the number of lanes compute() used
LanesUsed ==
    IF DOMAIN state = {} THEN 0
    ELSE 1 + CHOOSE m \in {state[i].stackLevel : i \in DOMAIN state} :
                 \A i \in DOMAIN state : state[i].stackLevel <= m

\* the largest number of input entries whose day ranges contain one same day
CliqueSize ==
    LET days == UNION {DaysOf(e) : e \in ArgSet}
        count(d) == Cardinality({e \in ArgSet : d \in DaysOf(e)})
    IN IF days = {} THEN 0
       ELSE CHOOSE c \in {count(d) : d \in days} : \A d \in days : count(d) <= c

\* C2: the number of lanes used (largest stackLevel + 1) is at most the largest
\* number of input entries whose calendar-day ranges contain one same day
C2_FewestLanes == Done => LanesUsed <= CliqueSize

\* three entries were laid out in exactly two lanes, two of them on a common day
C2_Witness == Done /\ Len(args) = 3 /\ LanesUsed = 2 /\ CliqueSize = 2

\* C3: an entry whose day range intersects the window gets
\* startPos = max(0, start day - window start day) and spanLength = the number
\* of its days inside the window; so spanLength >= 1, startPos + spanLength is
\* at most the window length, an entry covering the window gets (0, window
\* length) and a one-day entry gets spanLength 1
C3_ClippedPosition ==
    Done =>
        \A e \in ArgSet :
            Intersects(e) =>
                LET r == state[e.id]
                    winLen == WinLast - WinFirst + 1
                IN /\ r.startPos = Max(0, FirstDay(e) - WinFirst)
                   /\ r.spanLength = Cardinality(DaysOf(e) \cap (WinFirst..WinLast))
                   /\ r.spanLength >= 1
                   /\ r.startPos + r.spanLength <= winLen
                   /\ (FirstDay(e) < WinFirst /\ LastDay(e) > WinLast)
                         => (r.startPos = 0 /\ r.spanLength = winLen)
                   /\ FirstDay(e) = LastDay(e) => r.spanLength = 1

\* an entry that starts before the window and ends after it was laid out,
\* together with one that starts inside the window and ends after it
C3_Witness ==
    /\ Done
    /\ \E e \in ArgSet : FirstDay(e) < WinFirst /\ LastDay(e) > WinLast
    /\ \E e \in ArgSet : FirstDay(e) > WinFirst /\ FirstDay(e) <= WinLast
                            /\ LastDay(e) > WinLast

\* C4 as claimed: every LayoutState, also of an entry entirely before or after
\* the window, has startPos >= 0, spanLength >= 1 and stackLevel >= 0
C4_AllPositive ==
    Done =>
        \A i \in DOMAIN state :
            /\ state[i].startPos \in Nat
            /\ state[i].spanLength \in Nat /\ state[i].spanLength >= 1
            /\ state[i].stackLevel \in Nat

\* C4 as amended: startPos and stackLevel are integers >= 0 for every entry;
\* spanLength is an integer that is >= 1 for an entry whose day range
\* intersects the window and <= 0 for an entry entirely before or after it
C4_PositiveInsideWindow ==
    Done =>
        \A e \in ArgSet :
            /\ state[e.id].startPos \in Nat
            /\ state[e.id].stackLevel \in Nat
            /\ state[e.id].spanLength \in Int
            /\ Intersects(e) => state[e.id].spanLength >= 1
            /\ ~Intersects(e) => state[e.id].spanLength <= 0

\* an entry entirely before the window and one entirely after it were laid out
C4_Witness ==
    /\ Done
    /\ \E e \in ArgSet : LastDay(e) < WinFirst /\ state[e.id].spanLength < 0
    /\ \E e \in ArgSet : FirstDay(e) > WinLast /\ state[e.id].spanLength <= 0

\* the scenario: A, B and C, each once, in the 7-day window
ScenarioRun ==
    /\ Done
    /\ Len(toArray(duration)) = 7
    /\ \E tz \in Zones : ArgSet = ScenarioPool(tz)

\* C5 as claimed: B gets lane 0, A lane 1 and C lane 0
C5_ScenarioAsClaimed ==
    ScenarioRun =>
        /\ state[2].stackLevel = 0
        /\ state[1].stackLevel = 1
        /\ state[3].stackLevel = 0

\* C5 as amended: B gets lane 0, A lane 1 and C lane 1, because B occupies
\* lane 0 through day 4 (its lane end is 5) and A's lane is free from day 3
C5_Scenario ==
    ScenarioRun =>
        /\ state[2].stackLevel = 0
        /\ state[1].stackLevel = 1
        /\ state[3].stackLevel = 1
        /\ state[2].startPos + state[2].spanLength = 5
        /\ state[1].startPos + state[1].spanLength = 3
        /\ state[3].startPos = 4

\* the scenario was laid out from an array that was not yet in sorted order
C5_Witness == ScenarioRun /\ args[1].id = 3 /\ args[2].id = 1

\* the strict order of the claim: earlier start instant; then all-day before
\* timed; then the later end
ClaimedBefore(x, y) ==
    \/ getTime(x.startDate) < getTime(y.startDate)
    \/ /\ getTime(x.startDate) = getTime(y.startDate)
       /\ x.allDay /\ ~y.allDay
    \/ /\ getTime(x.startDate) = getTime(y.startDate)
       /\ x.allDay = y.allDay
       /\ getTime(x.endDate) > getTime(y.endDate)

\* C6 as claimed: compute() places the entries by ascending start instant, then
\* all-day before timed, then the later end first
C6_OrderByInstant ==
    Done =>
        \A i \in 1..Len(sorted) : \A j \in 1..Len(sorted) :
            i < j => ~ClaimedBefore(sorted[j], sorted[i])

\* C6 as amended: compute() places the entries it was given by ascending start
\* calendar day, and among entries that start on the same calendar day the
\* all-day entries before the timed ones, whatever their start instants
C6_OrderByDayThenAllDay ==
    Done =>
        /\ Len(sorted) = Len(args)
        /\ {sorted[i] : i \in 1..Len(sorted)} = ArgSet
        /\ \A i \in 1..Len(sorted) : \A j \in 1..Len(sorted) :
              i < j =>
                 /\ FirstDay(sorted[i]) <= FirstDay(sorted[j])
                 /\ FirstDay(sorted[i]) = FirstDay(sorted[j])
                       => (sorted[i].allDay \/ ~sorted[j].allDay)

\* an all-day entry was placed before a timed entry of the same day that starts
\* earlier, and after a timed entry of the day before, from an unsorted array
C6_Witness ==
    /\ Done
    /\ Len(sorted) = 3
    /\ ~sorted[1].allDay /\ sorted[2].allDay /\ ~sorted[3].allDay
    /\ FirstDay(sorted[1]) < FirstDay(sorted[2])
    /\ FirstDay(sorted[2]) = FirstDay(sorted[3])
    /\ getTime(sorted[3].startDate) < getTime(sorted[2].startDate)
    /\ args # sorted

Sign(n) == IF n < 0 THEN -1 ELSE IF n > 0 THEN 1 ELSE 0

\* C7: over the entries handed to compute(), sortEntries is a consistent
\* strict weak ordering: antisymmetric in sign, transitive, and with a
\* transitive equivalence (so no three entries form a cycle)
C7_StrictWeakOrder ==
    Done =>
        \A x \in ArgSet : \A y \in ArgSet : \A z \in ArgSet :
            /\ Sign(sortEntries(x, y)) = -Sign(sortEntries(y, x))
            /\ (sortEntries(x, y) < 0 /\ sortEntries(y, z) < 0)
                  => sortEntries(x, z) < 0
            /\ (sortEntries(x, y) = 0 /\ sortEntries(y, z) = 0)
                  => sortEntries(x, z) = 0

\* C8: compute() leaves the caller's array as it received it
C8_ArgumentsUntouched == Done => entries = args

----------------------------------------------------------------------------
(* The clock program: two DateTime values are constructed and compared *)

\* offsets inside one TIME_UNIT at which raw milliseconds are drawn
Residues == {0, 1, MS_PER_MINUTE - 1, MS_PER_MINUTE, TIME_UNIT - 1}

RawMs == {k * TIME_UNIT + r : k \in (0 - MaxTick)..MaxTick, r \in Residues}

InitClock ==
    /\ pc = "start"
    /\ rawA = 0 /\ rawB = 0 /\ a = NoClock /\ b = NoClock /\ cmp = <<>>
    /\ iv = <<>> /\ cal = <<>> /\ eng = <<>>
    /\ pool = <<>> /\ entries = <<>> /\ duration = <<>> /\ args = <<>>
    /\ state = <<>> /\ sorted = <<>>

\* a = new DateTime(ms, tz)
NewA(ms, tz) ==
    /\ pc = "start"
    /\ rawA' = ms
    /\ a' = DateTime(ms, tz)
    /\ pc' = "a"
    /\ UNCHANGED <<rawB, b, cmp>>
    /\ UNCHANGED layoutVars
    /\ UNCHANGED otherVars

\* b = new DateTime(ms, tz)
NewB(ms, tz) ==
    /\ pc = "a"
    /\ rawB' = ms
    /\ b' = DateTime(ms, tz)
    /\ pc' = "b"
    /\ UNCHANGED <<rawA, a, cmp>>
    /\ UNCHANGED layoutVars
    /\ UNCHANGED otherVars

\* a.isEqual(b), a.isBefore(b), a.isAfter(b), a.isOnOrBefore(b), a.isOnOrAfter(b)
Compare ==
    /\ pc = "b"
    /\ cmp' = [isEqual |-> isEqual(a, b),
               isBefore |-> isBefore(a, b),
               isAfter |-> isAfter(a, b),
               isOnOrBefore |-> isOnOrBefore(a, b),
               isOnOrAfter |-> isOnOrAfter(a, b)]
    /\ pc' = "compared"
    /\ UNCHANGED <<rawA, rawB, a, b>>
    /\ UNCHANGED layoutVars
    /\ UNCHANGED otherVars

NextClock ==
    \/ \E ms \in RawMs, tz \in Zones : NewA(ms, tz)
    \/ \E ms \in RawMs, tz \in Zones : NewB(ms, tz)
    \/ Compare

SpecClock == InitClock /\ [][NextClock]_vars

\* C9: truncateTime(ms) is a multiple of 300000, at most ms, less than 300000
\* below ms, and a fixed point of truncateTime, for negative ms too
C9_TruncateFloor ==
    pc # "start" =>
        /\ truncateTime(rawA) % TIME_UNIT = 0
        /\ truncateTime(rawA) <= rawA
        /\ rawA - truncateTime(rawA) < TIME_UNIT
        /\ truncateTime(truncateTime(rawA)) = truncateTime(rawA)
        /\ getTime(a) = truncateTime(rawA)

\* a clock was constructed from a negative ms that is no multiple of 300000
C9_Witness == pc = "a" /\ rawA < 0 /\ rawA % TIME_UNIT # 0 /\ getTime(a) < rawA

\* C10: the five comparisons depend on the quantized instants alone
C10_CompareByInstant ==
    pc = "compared" =>
        /\ cmp.isEqual = (getTime(a) = getTime(b))
        /\ cmp.isBefore = (getTime(a) < getTime(b))
        /\ cmp.isAfter = (getTime(a) > getTime(b))
        /\ cmp.isOnOrBefore = (getTime(a) <= getTime(b))
        /\ cmp.isOnOrAfter = (getTime(a) >= getTime(b))
        /\ (rawA = rawB) =>
              (cmp.isEqual /\ ~cmp.isBefore /\ ~cmp.isAfter /\ getTime(a) = getTime(b))

\* two clocks built from the same ms in different zones, with different local
\* views, were compared and found equal
C10_Witness ==
    /\ pc = "compared"
    /\ rawA = rawB
    /\ a.tz # b.tz
    /\ LocalMs(View(a)) # LocalMs(View(b))
    /\ cmp.isEqual

----------------------------------------------------------------------------
(* The interval program: clocks are compared with isBetween, two Durations  *)
(* are constructed from them, enumerated and tested for overlap            *)

\* DateTime.isBetween(startDate, endDate): both bounds included.  The
\* implementation has two parameters; a third argument of a call is dropped
isBetween(this, start, end) == isOnOrAfter(this, start) /\ isOnOrBefore(this, end)

\* new Duration(start, end): the constructed Duration, or the thrown error
NewDuration(start, end) ==
    IF DurationThrows(start, end)
    THEN [threw |-> TRUE, startDate |-> start, endDate |-> start]
    ELSE [threw |-> FALSE] @@ Duration(start, end)

\* an overlap test with strict comparisons
isOverlapStrict(this, other) ==
    /\ isBefore(this.startDate, other.endDate)
    /\ isAfter(this.endDate, other.startDate)

\* Duration.isOverlap(duration)
isOverlap(this, other) ==
    /\ isOnOrBefore(this.startDate, other.endDate)
    /\ isOnOrAfter(this.endDate, other.startDate)

\* the comparisons of the earlier BaseDate, on the milliseconds
BaseDate_isBefore(x, y) == getTime(x) < getTime(y)
BaseDate_isAfter(x, y) == getTime(x) > getTime(y)
BaseDate_isOnOrBefore(x, y) == getTime(x) = getTime(y) \/ BaseDate_isBefore(x, y)
BaseDate_isOnOrAfter(x, y) == getTime(x) = getTime(y) \/ BaseDate_isAfter(x, y)

\* the earlier DateTime.isBetween(range, includeBounds)
DateTimeRange_isBetween(this, range, includeBounds) ==
    IF includeBounds
    THEN BaseDate_isOnOrAfter(this, range.startDate) /\ BaseDate_isOnOrBefore(this, range.endDate)
    ELSE BaseDate_isAfter(this, range.startDate) /\ BaseDate_isBefore(this, range.endDate)

\* DateTimeRange.isOverlap(range, includeBounds = false)
DateTimeRange_isOverlap(this, range, includeBounds) ==
    LET partially ==
            \/ DateTimeRange_isBetween(this.startDate, range, includeBounds)
            \/ DateTimeRange_isBetween(this.endDate, range, includeBounds)
    IN IF partially THEN TRUE
       ELSE IF includeBounds
       THEN \/ /\ BaseDate_isOnOrBefore(this.startDate, range.startDate)
               /\ BaseDate_isOnOrAfter(this.endDate, range.endDate)
            \/ /\ BaseDate_isOnOrAfter(this.startDate, range.startDate)
               /\ BaseDate_isOnOrBefore(this.endDate, range.endDate)
       ELSE \/ /\ BaseDate_isBefore(this.startDate, range.startDate)
               /\ BaseDate_isAfter(this.endDate, range.endDate)
            \/ /\ BaseDate_isAfter(this.startDate, range.startDate)
               /\ BaseDate_isBefore(this.endDate, range.endDate)

\* the clocks of the interval program: midnight and 23:55 in Seoul and 16:00
\* in Prague (the instant of the next midnight in Seoul) of days 0..MaxDay
IntervalClocks ==
    UNION {{At(d, 0, SEOUL), At(d, 23 * 60 + 55, SEOUL), At(d, 16 * 60, PRAGUE)} :
              d \in 0..MaxDay}

\* the clocks of the second Duration: those of Seoul
SeoulClocks == {c \in IntervalClocks : c.tz = SEOUL}

InitInterval ==
    /\ pc = "interval"
    /\ iv = <<>>
    /\ cal = <<>>
    /\ eng = <<>>
    /\ rawA = 0 /\ rawB = 0 /\ a = NoClock /\ b = NoClock /\ cmp = <<>>
    /\ pool = <<>> /\ entries = <<>> /\ duration = <<>> /\ args = <<>>
    /\ state = <<>> /\ sorted = <<>>

\* four clocks p, q, r, s are constructed
PickClocks(p, q, r, s) ==
    /\ pc = "interval"
    /\ iv' = [p |-> p, q |-> q, r |-> r, s |-> s,
              between |-> <<>>, A |-> <<>>, B |-> <<>>, days |-> <<>>, overlap |-> <<>>]
    /\ pc' = "clocks"
    /\ UNCHANGED <<cal, eng>> /\ UNCHANGED layoutVars /\ UNCHANGED clockVars

\* p.isBetween(q, r), p.isBetween(q, r, true), p.isBetween(q, r, false)
IsBetween ==
    /\ pc = "clocks"
    /\ iv' = [iv EXCEPT !.between =
                 [plain |-> isBetween(iv.p, iv.q, iv.r),
                  inclusive |-> isBetween(iv.p, iv.q, iv.r),
                  exclusive |-> isBetween(iv.p, iv.q, iv.r)]]
    /\ pc' = "between"
    /\ UNCHANGED <<cal, eng>> /\ UNCHANGED layoutVars /\ UNCHANGED clockVars

\* A = new Duration(p, q); B = new Duration(r, s): a throw ends the program
NewDurations ==
    /\ pc = "between"
    /\ LET A == NewDuration(iv.p, iv.q)
           B == IF A.threw THEN A ELSE NewDuration(iv.r, iv.s)
       IN /\ iv' = [iv EXCEPT !.A = A, !.B = B]
          /\ pc' = IF A.threw \/ B.threw THEN "threw" ELSE "durations"
    /\ UNCHANGED <<cal, eng>> /\ UNCHANGED layoutVars /\ UNCHANGED clockVars

\* A.toArray()
ToArray ==
    /\ pc = "durations"
    /\ iv' = [iv EXCEPT !.days = toArray(iv.A)]
    /\ pc' = "arrays"
    /\ UNCHANGED <<cal, eng>> /\ UNCHANGED layoutVars /\ UNCHANGED clockVars

\* A.isOverlap(B), B.isOverlap(A), A.isOverlap(A), and the exclusive overlap
\* of the two ranges
IsOverlap ==
    /\ pc = "arrays"
    /\ iv' = [iv EXCEPT !.overlap =
                 [ab |-> isOverlap(iv.A, iv.B),
                  ba |-> isOverlap(iv.B, iv.A),
                  aa |-> isOverlap(iv.A, iv.A),
                  exclusive |-> DateTimeRange_isOverlap(iv.A, iv.B, FALSE)]]
    /\ pc' = "overlap"
    /\ UNCHANGED <<cal, eng>> /\ UNCHANGED layoutVars /\ UNCHANGED clockVars

NextInterval ==
    \/ \E p \in IntervalClocks, q \in IntervalClocks,
          r \in SeoulClocks, s \in SeoulClocks : PickClocks(p, q, r, s)
    \/ IsBetween
    \/ NewDurations
    \/ ToArray
    \/ IsOverlap

SpecInterval == InitInterval /\ [][NextInterval]_vars

----------------------------------------------------------------------------
(* Properties of isBetween and Duration *)

BetweenDone == pc \in {"between", "threw", "durations", "arrays", "overlap"}
DurationsDone == pc \in {"threw", "durations", "arrays", "overlap"}
ArraysDone == pc \in {"arrays", "overlap"}
OverlapDone == pc = "overlap"

\* C11: isBetween(start, end) and isBetween(start, end, true) hold iff
\* start <= this <= end; isBetween(start, end, false) holds iff
\* start < this < end; with start after end every variant is false
C11_BetweenVariants ==
    BetweenDone =>
        LET t == getTime(iv.p)
            lo == getTime(iv.q)
            hi == getTime(iv.r)
        IN /\ iv.between.plain = (lo <= t /\ t <= hi)
           /\ iv.between.inclusive = (lo <= t /\ t <= hi)
           /\ iv.between.exclusive = (lo < t /\ t < hi)
           /\ lo > hi => (~iv.between.plain /\ ~iv.between.inclusive
                             /\ ~iv.between.exclusive)

\* C12: new Duration(start, end) throws iff start is after end; a Duration
\* that exists has startDate <= endDate; and when start equals end its
\* toArray() has length 1
C12_ConstructOrdered ==
    /\ DurationsDone =>
          /\ iv.A.threw = (getTime(iv.p) > getTime(iv.q))
          /\ ~iv.A.threw => iv.B.threw = (getTime(iv.r) > getTime(iv.s))
          /\ (pc = "threw") = (iv.A.threw \/ iv.B.threw)
          /\ ~iv.A.threw =>
                (iv.A.startDate = iv.p /\ iv.A.endDate = iv.q
                    /\ getTime(iv.A.startDate) <= getTime(iv.A.endDate))
    /\ ArraysDone => (getTime(iv.p) = getTime(iv.q) => Len(iv.days) = 1)

C14_InclusiveOverlap ==
    OverlapDone =>
        /\ iv.overlap.ab = (/\ getTime(iv.A.startDate) <= getTime(iv.B.endDate)
                            /\ getTime(iv.B.startDate) <= getTime(iv.A.endDate))
        /\ iv.overlap.ab = iv.overlap.ba
        /\ iv.overlap.aa
        /\ getTime(iv.A.endDate) = getTime(iv.B.startDate) => iv.overlap.ab

\* two Durations of different zones that share only the instant at which the
\* first ends and the second starts were found to overlap
C14_Witness ==
    /\ OverlapDone
    /\ getTime(iv.A.startDate) < getTime(iv.A.endDate)
    /\ getTime(iv.A.endDate) = getTime(iv.B.startDate)
    /\ getTime(iv.B.startDate) < getTime(iv.B.endDate)
    /\ iv.A.endDate.tz # iv.B.startDate.tz
    /\ iv.overlap.ab /\ iv.overlap.ba

\* C15: the exclusive overlap holds iff the later start is strictly before
\* the earlier end; so a range with start < end overlaps an identical range,
\* and ranges that touch at an endpoint do not overlap
C15_ExclusiveOverlap ==
    OverlapDone =>
        iv.overlap.exclusive =
            (Max(getTime(iv.A.startDate), getTime(iv.B.startDate))
                < Min(getTime(iv.A.endDate), getTime(iv.B.endDate)))

----------------------------------------------------------------------------
(* The calendar layer: week, month and year arithmetic of the dayjs view.   *)
(* Every DateTime is a multiple of TIME_UNIT, so this layer counts instants *)
(* in whole minutes since the epoch instead of milliseconds (years of       *)
(* milliseconds do not fit the 32-bit integers of TLC); a dayjs            *)
(* value between two DateTimes is represented by its whole minute, which    *)
(* is all the constructor's truncation to TIME_UNIT reads.                  *)

\* JavaScript evaluates the receiver and the arguments of a call once and
\* passes their values: F is applied to the value of e
ByValue(F(_), e) == CHOOSE r \in {F(x) : x \in {e}} : TRUE

MIN_PER_HOUR == MS_PER_HOUR \div MS_PER_MINUTE
MIN_PER_DAY == MS_PER_DAY \div MS_PER_MINUTE

\* truncateTime on minutes: Math.floor(ms / TIME_UNIT) * TIME_UNIT
Cal_truncateTime(min) ==
    Floor(min, TIME_UNIT \div MS_PER_MINUTE) * (TIME_UNIT \div MS_PER_MINUTE)

\* new DateTime(ms, tz), ms = min * 60000 (+ less than a minute)
Cal_DateTime(min, tz) == [min |-> Cal_truncateTime(min), tz |-> tz]

\* the dayjs view of a DateTime
Cal_View(d) == [min |-> d.min, off |-> utcOffset(d.tz)]

\* the Gregorian calendar of the JavaScript Date
IsLeapYear(y) == (y % 4 = 0 /\ y % 100 # 0) \/ y % 400 = 0

DaysInMonth(y, m) ==
    CASE m = 2 -> IF IsLeapYear(y) THEN 29 ELSE 28
      [] m \in {4, 6, 9, 11} -> 30
      [] OTHER -> 31

\* the number of days from 1970-01-01 to the civil date y-m-d (m in 1..12)
DaysFromCivil(y, m, d) ==
    ByValue(LAMBDA yy :
        ByValue(LAMBDA era :
            ByValue(LAMBDA yoe :
                era * 146097 + yoe * 365 + yoe \div 4 - yoe \div 100
                    + (153 * (IF m > 2 THEN m - 3 ELSE m + 9) + 2) \div 5 + d - 1
                    - 719468,
                yy - era * 400),
            Floor(yy, 400)),
        IF m <= 2 THEN y - 1 ELSE y)

\* the civil date of the day z days after 1970-01-01
CivilFromDays(z) ==
    ByValue(LAMBDA era :
        ByValue(LAMBDA doe :
            ByValue(LAMBDA yoe :
                ByValue(LAMBDA doy :
                    ByValue(LAMBDA mp :
                        ByValue(LAMBDA m :
                            [y |-> yoe + era * 400 + (IF m <= 2 THEN 1 ELSE 0),
                             m |-> m,
                             d |-> doy - (153 * mp + 2) \div 5 + 1],
                            IF mp < 10 THEN mp + 3 ELSE mp - 9),
                        (5 * doy + 2) \div 153),
                    doe - (365 * yoe + yoe \div 4 - yoe \div 100)),
                (doe - doe \div 1460 + doe \div 36524 - doe \div 146096) \div 365),
            z + 719468 - era * 146097),
        Floor(z + 719468, 146097))

\* the local fields of a dayjs view: year(), month() + 1, date(), the minute
\* of the day (hour() * 60 + minute()) and day() (0 = Sunday)
Dayjs_fields(v) ==
    ByValue(LAMBDA dn :
        ByValue(LAMBDA c :
            [y |-> c.y, m |-> c.m, d |-> c.d,
             mod |-> v.min + v.off - dn * MIN_PER_DAY,
             day |-> (dn + 4) % 7],
            CivilFromDays(dn)),
        Floor(v.min + v.off, MIN_PER_DAY))

\* the dayjs view of offset off whose local fields are y-m-d and minute mod
Dayjs_make(y, m, d, mod, off) ==
    [min |-> DaysFromCivil(y, m, d) * MIN_PER_DAY + mod - off, off |-> off]

\* a startOf that reads the fields of the UTC day instead of the local day
Dayjs_startOfUtc(v, unit) ==
    ByValue(LAMBDA f :
        [min |-> Dayjs_make(f.y,
                            IF unit = "year" THEN 1 ELSE f.m,
                            IF unit = "day" THEN f.d ELSE 1,
                            0, 0).min,
         off |-> v.off],
        Dayjs_fields([min |-> v.min, off |-> 0]))

\* the units dayjs startOf and endOf know, of those in use here; for any
\* other token they return a clone of the view
DayjsStartOfUnits == {"year", "month", "day", "date", "hour"}

\* dayjs startOf(unit)
Dayjs_startOf(v, unit) ==
    IF unit \notin DayjsStartOfUnits
    THEN v
    ELSE ByValue(LAMBDA f :
             Dayjs_make(f.y,
                        IF unit = "year" THEN 1 ELSE f.m,
                        IF unit \in {"year", "month"} THEN 1 ELSE f.d,
                        IF unit = "hour" THEN (f.mod \div MIN_PER_HOUR) * MIN_PER_HOUR
                                         ELSE 0,
                        v.off),
             Dayjs_fields(v))

\* dayjs endOf(unit): the last minute (23:59, or minute 59 of the hour) of
\* the unit
Dayjs_endOf(v, unit) ==
    IF unit \notin DayjsStartOfUnits
    THEN v
    ELSE ByValue(LAMBDA f :
             Dayjs_make(f.y,
                        IF unit = "year" THEN 12 ELSE f.m,
                        CASE unit = "year" -> 31
                          [] unit = "month" -> DaysInMonth(f.y, f.m)
                          [] OTHER -> f.d,
                        IF unit = "hour"
                        THEN (f.mod \div MIN_PER_HOUR) * MIN_PER_HOUR + MIN_PER_HOUR - 1
                        ELSE MIN_PER_DAY - 1,
                        v.off),
             Dayjs_fields(v))

\* the civil date dayjs sets for add(value, month or year): the month or the
\* year moves, the day of the month is clamped to the target month
Dayjs_setMonth(f, value, unit) ==
    ByValue(LAMBDA t : [y |-> t[1], m |-> t[2], d |-> Min(f.d, DaysInMonth(t[1], t[2]))],
        IF unit = "month"
        THEN <<f.y + Floor(f.m - 1 + value, 12), ((f.m - 1 + value) % 12) + 1>>
        ELSE <<f.y + value, f.m>>)

\* the days the earlier BaseDate.add counts for one month from the date f
\* (date.ts 186-201)
BaseDate_factor(f) ==
    ByValue(LAMBDA last :
                IF f.d > last[2] THEN last[1] - f.d + last[2] ELSE last[1],
            <<DaysInMonth(f.y, f.m),
              DaysInMonth(f.y + Floor(f.m, 12), (f.m % 12) + 1)>>)

\* an add that counts a month as that fixed number of days, value times, and
\* a year as 365 days
Dayjs_addFixedMonth(v, value, unit) ==
    CASE unit = "minute" -> [v EXCEPT !.min = v.min + value]
      [] unit = "hour" -> [v EXCEPT !.min = v.min + value * MIN_PER_HOUR]
      [] unit = "day" -> [v EXCEPT !.min = v.min + value * MIN_PER_DAY]
      [] unit = "week" -> [v EXCEPT !.min = v.min + value * 7 * MIN_PER_DAY]
      [] unit = "month" ->
            ByValue(LAMBDA f :
                [v EXCEPT !.min = v.min + value * BaseDate_factor(f) * MIN_PER_DAY],
                Dayjs_fields(v))
      [] OTHER -> [v EXCEPT !.min = v.min + value * 365 * MIN_PER_DAY]

\* dayjs add(value, unit): minute, hour, day and week shift the instant;
\* month and year set the month or the year and keep the day of the month,
\* clamped to the last day of the target month, and the time of day; for any
\* other token the step is one millisecond (v is on a whole minute)
Dayjs_add(v, value, unit) ==
    CASE unit = "minute" -> [v EXCEPT !.min = v.min + value]
      [] unit = "hour" -> [v EXCEPT !.min = v.min + value * MIN_PER_HOUR]
      [] unit = "day" -> [v EXCEPT !.min = v.min + value * MIN_PER_DAY]
      [] unit = "week" -> [v EXCEPT !.min = v.min + value * 7 * MIN_PER_DAY]
      [] unit \in {"month", "year"} ->
            ByValue(LAMBDA f :
                ByValue(LAMBDA t : Dayjs_make(t.y, t.m, t.d, f.mod, v.off),
                        Dayjs_setMonth(f, value, unit)),
                Dayjs_fields(v))
      [] OTHER -> [v EXCEPT !.min = v.min + Floor(value, MS_PER_MINUTE)]

\* dayjs monthDiff(a, b) as the fraction <<numerator, denominator>>;
\* p = <<a, b, a.date(), b.date(), wholeMonthDiff>>
RECURSIVE Dayjs_monthDiff(_, _)
Dayjs_monthDiff(x, y) ==
    ByValue(LAMBDA p :
        IF p[3] < p[4]
        THEN ByValue(LAMBDA r : <<0 - r[1], r[2]>>, Dayjs_monthDiff(p[2], p[1]))
        ELSE ByValue(LAMBDA anchor :
                 ByValue(LAMBDA anchor2 :
                     <<0 - (p[5] * (IF p[2].min - anchor.min < 0
                                    THEN anchor.min - anchor2.min
                                    ELSE anchor2.min - anchor.min)
                            + (p[2].min - anchor.min)),
                       IF p[2].min - anchor.min < 0
                       THEN anchor.min - anchor2.min
                       ELSE anchor2.min - anchor.min>>,
                     Dayjs_add(p[1],
                               p[5] + (IF p[2].min - anchor.min < 0 THEN 0 - 1 ELSE 1),
                               "month")),
                 Dayjs_add(p[1], p[5], "month")),
        ByValue(LAMBDA f : <<x, y, f[1].d, f[2].d,
                             (f[2].y - f[1].y) * 12 + (f[2].m - f[1].m)>>,
                <<Dayjs_fields(x), Dayjs_fields(y)>>))

\* dayjs this.diff(that, unit) without the float flag (two views of zones
\* with an offset, or two views of UTC); zoneDelta = that.off - this.off
Dayjs_diff(this, that, unit) ==
    CASE unit = "minute" -> this.min - that.min
      [] unit = "hour" -> AbsFloor(this.min - that.min, MIN_PER_HOUR)
      [] unit = "day" ->
            AbsFloor(this.min - that.min - (that.off - this.off), MIN_PER_DAY)
      [] unit = "week" ->
            AbsFloor(this.min - that.min - (that.off - this.off), 7 * MIN_PER_DAY)
      [] OTHER ->
            ByValue(LAMBDA md :
                        AbsFloor(md[1], IF unit = "month" THEN md[2] ELSE 12 * md[2]),
                    Dayjs_monthDiff(this, that))

----------------------------------------------------------------------------
(* DateTime and Duration on the calendar layer.                             *)

\* WEEK_STARTS_ON
WEEK_STARTS_ON_SUN == 0
WEEK_STARTS_ON_MON == 1

\* JavaScript values a caller can pass as weekStartsOn
Undefined == [t |-> "undefined", n |-> 0]
Num(n) == [t |-> "number", n |-> n]
Str(n) == [t |-> "string", n |-> n]

\* v === n for a number n
StrictEquals(v, n) == v.t = "number" /\ v.n = n

\* a validation that lets an omitted weekStartsOn pass
assertWeekStartsOnDefaultThrows(v) ==
    /\ v.t # "undefined"
    /\ ~StrictEquals(v, WEEK_STARTS_ON_SUN)
    /\ ~StrictEquals(v, WEEK_STARTS_ON_MON)

\* assertWeekStartsOn(v) throws
assertWeekStartsOnThrows(v) ==
    ~StrictEquals(v, WEEK_STARTS_ON_SUN) /\ ~StrictEquals(v, WEEK_STARTS_ON_MON)

\* the value assertWeekStartsOn(v) returns when it does not throw
assertWeekStartsOn(v) == v.n

\* a start of week that ignores weekStartsOn and always goes back to Sunday
startOfWeekViewSunday(view, weekStartsOn) ==
    ByValue(LAMBDA day : Dayjs_add(Dayjs_startOf(view, "day"), 0 - day, "day"),
            Dayjs_fields(view).day)

\* startOfWeekView(view, weekStartsOn); subtract(offset, day) is add(-offset, day)
startOfWeekView(view, weekStartsOn) ==
    ByValue(LAMBDA day :
        Dayjs_add(Dayjs_startOf(view, "day"),
                  0 - (IF weekStartsOn = WEEK_STARTS_ON_MON
                       THEN (IF day = 0 THEN 6 ELSE day - 1)
                       ELSE day),
                  "day"),
        Dayjs_fields(view).day)

endOfWeekView(view, weekStartsOn) ==
    Dayjs_endOf(Dayjs_add(startOfWeekView(view, weekStartsOn), 6, "day"), "day")

\* DateTime.add on an add of months by days
Cal_addFixedMonth(this, value, unit) ==
    Cal_DateTime(Dayjs_addFixedMonth(Cal_View(this), value, unit).min, this.tz)

\* DateTime.add(value, unit)
Cal_add(this, value, unit) ==
    Cal_DateTime(Dayjs_add(Cal_View(this), value, unit).min, this.tz)

\* a diff with the operands exchanged (argument minus receiver, the sign of
\* the earlier BaseDate.diff)
Cal_diffReversed(this, other, unit) ==
    IF unit \in {"day", "month", "year"}
    THEN Dayjs_diff(Dayjs_startOf(Cal_View(other), unit),
                    Dayjs_startOf(Cal_View(this), unit), unit)
    ELSE Dayjs_diff(Cal_View(other), Cal_View(this), unit)

\* DateTime.diff(other, unit), unit in {"minute", "hour", "day", "month", "year"}
Cal_diff(this, other, unit) ==
    IF unit \in {"day", "month", "year"}
    THEN Dayjs_diff(Dayjs_startOf(Cal_View(this), unit),
                    Dayjs_startOf(Cal_View(other), unit), unit)
    ELSE Dayjs_diff(Cal_View(this), Cal_View(other), unit)

\* dayjs view.hour(hours).minute(minutes), 0 <= hours <= 23, 0 <= minutes <= 59
Dayjs_hourMinute(v, hours, minutes) ==
    ByValue(LAMBDA f : Dayjs_make(f.y, f.m, f.d, hours * MIN_PER_HOUR + minutes, v.off),
            Dayjs_fields(v))

\* a setTime that keeps the minute as given, without the constructor's
\* truncation
Cal_setTimeExact(this, hours, minutes) ==
    [min |-> Dayjs_hourMinute(Cal_View(this), hours, minutes).min, tz |-> this.tz]

\* DateTime.setTime(hours, minutes)
Cal_setTime(this, hours, minutes) ==
    Cal_DateTime(Dayjs_hourMinute(Cal_View(this), hours, minutes).min, this.tz)

\* DateTime.startOf(unit, weekStartsOn) throws
Cal_startOfThrows(unit, weekStartsOn) ==
    unit = "week" /\ assertWeekStartsOnThrows(weekStartsOn)

\* DateTime.startOf(unit, weekStartsOn) when it does not throw
Cal_startOf(this, unit, weekStartsOn) ==
    Cal_DateTime((IF unit = "week"
                  THEN startOfWeekView(Cal_View(this), assertWeekStartsOn(weekStartsOn))
                  ELSE Dayjs_startOf(Cal_View(this), unit)).min,
                 this.tz)

\* DateTime.endOf(unit, weekStartsOn) throws
Cal_endOfThrows(unit, weekStartsOn) ==
    unit = "week" /\ assertWeekStartsOnThrows(weekStartsOn)

\* DateTime.endOf(unit, weekStartsOn) when it does not throw
Cal_endOf(this, unit, weekStartsOn) ==
    Cal_DateTime((IF unit = "week"
                  THEN endOfWeekView(Cal_View(this), assertWeekStartsOn(weekStartsOn))
                  ELSE Dayjs_endOf(Cal_View(this), unit)).min,
                 this.tz)

\* new Duration(start, end) throws: start.isAfter(end)
Cal_DurationThrows(start, end) == start.min > end.min

\* new Duration(start, end): the Duration, or the error of the constructor
Cal_Duration(start, end) ==
    IF Cal_DurationThrows(start, end)
    THEN [threw |-> TRUE]
    ELSE [threw |-> FALSE, startDate |-> start, endDate |-> end]

\* DateTime.duration(unit, weekStartsOn), unit in {"day", "week", "month"}:
\* the Duration, or the error of assertWeekStartsOn or of the constructor
Cal_duration(this, unit, weekStartsOn) ==
    IF unit # "day" /\ assertWeekStartsOnThrows(weekStartsOn)
    THEN [threw |-> TRUE]
    ELSE ByValue(LAMBDA p : Cal_Duration(p[1], p[2]),
             IF unit = "month"
             THEN <<Cal_startOf(Cal_startOf(this, "month", Undefined),
                                "week", weekStartsOn),
                    Cal_endOf(Cal_endOf(this, "month", Undefined),
                              "week", weekStartsOn)>>
             ELSE <<Cal_startOf(this, unit, weekStartsOn),
                    Cal_endOf(this, unit, weekStartsOn)>>)

\* the cursor of toMatrix before the i-th week (i = 1 is the first)
RECURSIVE Cal_cursor(_, _, _)
Cal_cursor(d, ws, i) ==
    IF i = 1
    THEN Cal_startOf(d.startDate, "week", ws)
    ELSE Cal_add(Cal_cursor(d, ws, i - 1), 1, "week")

\* a matrix whose cursor advances by six days
Cal_toMatrixSixDays(d, weekStartsOn) ==
    IF assertWeekStartsOnThrows(weekStartsOn)
    THEN [threw |-> TRUE]
    ELSE [threw |-> FALSE,
          weeks |-> [i \in 1..6 |->
                       Cal_duration(Cal_add(Cal_startOf(d.startDate, "week", weekStartsOn),
                                            6 * (i - 1), "day"),
                                    "week", weekStartsOn)]]

\* Duration.toMatrix(weekStartsOn): the weeks, or the error of
\* assertWeekStartsOn
Cal_toMatrix(d, weekStartsOn) ==
    IF assertWeekStartsOnThrows(weekStartsOn)
    THEN [threw |-> TRUE]
    ELSE [threw |-> FALSE,
          weeks |-> [i \in 1..6 |->
                       Cal_duration(Cal_cursor(d, weekStartsOn, i), "week", weekStartsOn)]]

----------------------------------------------------------------------------
(* The calendar program: a caller constructs a DateTime and calls startOf,  *)
(* endOf, duration, toMatrix or add on it, and diff on the result of add.   *)

\* the largest count a caller adds
MaxAdd == 3

\* the civil dates of the clocks: one whole week (Monday to Sunday) around
\* the end of January of a leap year, and the ends of months and years
CalendarDates ==
    {<<2024, 1, d>> : d \in 29..31} \cup {<<2024, 2, d>> : d \in 1..4}
        \cup {<<2024, 2, 29>>, <<2024, 12, 31>>, <<2025, 1, 31>>, <<2025, 3, 31>>}

\* the local times of day of the clocks, in minutes (09:37 is not a multiple
\* of TIME_UNIT)
CalendarTimes == {0, 9 * MIN_PER_HOUR + 37, MIN_PER_DAY - 5}

\* DateTime.fromTZ-like input: the instant of a local date and time in tz
CalendarInstants(tz) ==
    {Dayjs_make(c[1], c[2], c[3], t, utcOffset(tz)).min :
        c \in CalendarDates, t \in CalendarTimes}

\* the weekStartsOn arguments of the callers
WeekStartsOnArgs ==
    {Undefined, Num(WEEK_STARTS_ON_SUN), Num(WEEK_STARTS_ON_MON),
     Num(2), Num(6), Num(0 - 1), Str(WEEK_STARTS_ON_MON)}

\* the values a caller adds: small counts and multiples of five
AddValues == ((0 - MaxAdd)..MaxAdd) \cup {5 * k : k \in (0 - MaxAdd)..MaxAdd}

InitCalendar ==
    /\ pc = "calendar"
    /\ cal = <<>>
    /\ iv = <<>>
    /\ eng = <<>>
    /\ pool = <<>> /\ entries = <<>> /\ duration = <<>> /\ args = <<>>
    /\ state = <<>> /\ sorted = <<>>
    /\ rawA = 0 /\ rawB = 0 /\ a = NoClock /\ b = NoClock /\ cmp = <<>>

\* new DateTime(ms, tz)
NewClock(min, tz) ==
    /\ pc = "calendar"
    /\ pc' = "clock"
    /\ cal' = [x |-> Cal_DateTime(min, tz)]
    /\ UNCHANGED <<iv, eng>> /\ UNCHANGED layoutVars /\ UNCHANGED clockVars

\* x.startOf(unit, weekStartsOn)
StartOf(unit, weekStartsOn) ==
    /\ pc = "clock"
    /\ pc' = "startOf"
    /\ cal' = IF Cal_startOfThrows(unit, weekStartsOn)
              THEN [x |-> cal.x, unit |-> unit, ws |-> weekStartsOn, threw |-> TRUE]
              ELSE [x |-> cal.x, unit |-> unit, ws |-> weekStartsOn, threw |-> FALSE,
                    r |-> Cal_startOf(cal.x, unit, weekStartsOn)]
    /\ UNCHANGED <<iv, eng>> /\ UNCHANGED layoutVars /\ UNCHANGED clockVars

\* x.endOf(unit, weekStartsOn)
EndOf(unit, weekStartsOn) ==
    /\ pc = "clock"
    /\ pc' = "endOf"
    /\ cal' = IF Cal_endOfThrows(unit, weekStartsOn)
              THEN [x |-> cal.x, unit |-> unit, ws |-> weekStartsOn, threw |-> TRUE]
              ELSE [x |-> cal.x, unit |-> unit, ws |-> weekStartsOn, threw |-> FALSE,
                    r |-> Cal_endOf(cal.x, unit, weekStartsOn)]
    /\ UNCHANGED <<iv, eng>> /\ UNCHANGED layoutVars /\ UNCHANGED clockVars

\* x.duration(unit, weekStartsOn)
DurationOf(unit, weekStartsOn) ==
    /\ pc = "clock"
    /\ pc' = "duration"
    /\ cal' = [x |-> cal.x, unit |-> unit, ws |-> weekStartsOn,
               r |-> Cal_duration(cal.x, unit, weekStartsOn)]
    /\ UNCHANGED <<iv, eng>> /\ UNCHANGED layoutVars /\ UNCHANGED clockVars

\* new Duration(x, x.endOf(month)).toMatrix(weekStartsOn)
ToMatrix(weekStartsOn) ==
    /\ pc = "clock"
    /\ \E d \in {Cal_Duration(cal.x, Cal_endOf(cal.x, "month", Undefined))} :
          /\ ~d.threw
          /\ cal' = [x |-> cal.x, d |-> d, ws |-> weekStartsOn,
                     r |-> Cal_toMatrix(d, weekStartsOn)]
    /\ pc' = "matrix"
    /\ UNCHANGED <<iv, eng>> /\ UNCHANGED layoutVars /\ UNCHANGED clockVars

\* an add that moves the receiver itself and returns it (a mutable date)
AddInPlace(value, unit) ==
    /\ pc = "clock"
    /\ pc' = "added"
    /\ cal' = [x |-> Cal_add(cal.x, value, unit), n |-> value, unit |-> unit,
               y |-> Cal_add(cal.x, value, unit)]
    /\ UNCHANGED <<iv, eng>> /\ UNCHANGED layoutVars /\ UNCHANGED clockVars

\* y = x.add(value, unit)
Add(value, unit) ==
    /\ pc = "clock"
    /\ pc' = "added"
    /\ cal' = [x |-> cal.x, n |-> value, unit |-> unit,
               y |-> Cal_add(cal.x, value, unit)]
    /\ UNCHANGED <<iv, eng>> /\ UNCHANGED layoutVars /\ UNCHANGED clockVars

\* y.diff(x, unit) and x.diff(y, unit)
Diff(unit) ==
    /\ pc = "added"
    /\ pc' = "diffed"
    /\ cal' = [x |-> cal.x, n |-> cal.n, unit |-> cal.unit, y |-> cal.y,
               diffUnit |-> unit,
               forward |-> Cal_diff(cal.y, cal.x, unit),
               backward |-> Cal_diff(cal.x, cal.y, unit)]
    /\ UNCHANGED <<iv, eng>> /\ UNCHANGED layoutVars /\ UNCHANGED clockVars

\* DATETIME_UNIT: the unit tokens a caller can pass
DateTimeUnits == {"minute", "hour", "date", "day", "week", "month", "year"}

\* the units the signatures of diff, add, startOf and endOf accept
DiffUnits == DateTimeUnits \ {"date", "week"}
AddUnits == DateTimeUnits \ {"date"}
StartOfUnits == DateTimeUnits \ {"date", "hour", "minute"}

\* the hours and minutes the callers pass to setTime
SetTimeHours == {0, 8, 13, 23}
SetTimeMinutes == {0, 4, 30, 37, 59}

\* x.setTime(hours, minutes)
SetTime(hours, minutes) ==
    /\ pc = "clock"
    /\ pc' = "setTime"
    /\ cal' = [x |-> cal.x, hours |-> hours, minutes |-> minutes,
               r |-> Cal_setTime(cal.x, hours, minutes)]
    /\ UNCHANGED <<iv, eng>> /\ UNCHANGED layoutVars /\ UNCHANGED clockVars

NextCalendar ==
    \/ \E hours \in SetTimeHours : \E minutes \in SetTimeMinutes :
          SetTime(hours, minutes)
    \/ \E tz \in {SEOUL, PRAGUE} : \E min \in CalendarInstants(tz) : NewClock(min, tz)
    \/ \E unit \in DateTimeUnits \ {"minute"} :
          \E ws \in WeekStartsOnArgs : StartOf(unit, ws)
    \/ \E unit \in DateTimeUnits \ {"minute"} :
          \E ws \in WeekStartsOnArgs : EndOf(unit, ws)
    \/ \E unit \in {"day", "week", "month"} :
          \E ws \in WeekStartsOnArgs : DurationOf(unit, ws)
    \/ \E ws \in WeekStartsOnArgs : ToMatrix(ws)
    \/ \E value \in AddValues :
          \E unit \in DateTimeUnits : Add(value, unit)
    \/ \E unit \in DateTimeUnits \ {"date"} : Diff(unit)

SpecCalendar == InitCalendar /\ [][NextCalendar]_vars

----------------------------------------------------------------------------
(* Properties of the calendar program.                                      *)

\* the local day number, the minute of the local day and the day of the week
\* of a DateTime of the calendar layer
Cal_LocalDay(d) == Floor(d.min + utcOffset(d.tz), MIN_PER_DAY)
Cal_MinuteOfDay(d) == (d.min + utcOffset(d.tz)) % MIN_PER_DAY
Cal_DayOfWeek(d) == (Cal_LocalDay(d) + 4) % 7

MatrixDone == pc = "matrix" /\ ~cal.r.threw

StartOfWeekDone == pc = "startOf" /\ cal.unit = "week" /\ ~cal.threw
EndOfWeekDone == pc = "endOf" /\ cal.unit = "week" /\ ~cal.threw

InvalidWeekStart == cal.ws \notin {Num(WEEK_STARTS_ON_SUN), Num(WEEK_STARTS_ON_MON)}

Cal_Fields(d) == Dayjs_fields(Cal_View(d))
Cal_MonthIndex(d) == Cal_Fields(d).y * 12 + Cal_Fields(d).m - 1

\* d is on the last day of its month: the next day is the first of a month
Cal_IsLastDayOfMonth(d) == CivilFromDays(Cal_LocalDay(d) + 1).d = 1

AddedMonths == pc = "added" /\ cal.unit \in {"month", "year"}

Diffed == pc = "diffed"

\* the number of boundaries of the calendar unit between the local views of
\* x and y
Cal_Boundaries(x, y, unit) ==
    CASE unit = "day" -> Cal_LocalDay(y) - Cal_LocalDay(x)
      [] unit = "month" -> Cal_MonthIndex(y) - Cal_MonthIndex(x)
      [] OTHER -> Cal_Fields(y).y - Cal_Fields(x).y

UnsupportedUnitCalled ==
    \/ pc \in {"startOf", "endOf"} /\ cal.unit \notin StartOfUnits
    \/ pc = "added" /\ cal.unit \notin AddUnits
    \/ pc = "diffed" /\ cal.diffUnit \notin DiffUnits

\* the call returned a value
Cal_Returned ==
    \/ pc \in {"startOf", "endOf"} /\ ~cal.threw
    \/ pc = "added" /\ "y" \in DOMAIN cal
    \/ pc = "diffed" /\ "forward" \in DOMAIN cal

\* C23: diff, add, startOf and endOf called with a unit token outside the set
\* they support fail at the call (NotSupported) instead of returning a value.
C23_UnsupportedUnitFails == UnsupportedUnitCalled => ~Cal_Returned

\* add(-1, date) returned a clock: the instant five minutes before the
\* receiver
C23_AddDateReturns ==
    /\ pc = "added" /\ cal.unit = "date" /\ cal.n = 0 - 1
    /\ cal.y = Cal_DateTime(cal.x.min - 5, cal.x.tz)

StartOfDayDone == pc = "startOf" /\ cal.unit = "day" /\ ~cal.threw
EndOfDayDone == pc = "endOf" /\ cal.unit = "day" /\ ~cal.threw

\* C21: startOf(day) is 00:00 and endOf(day) is 23:55 of the clock's own
\* local calendar date, in the same time zone, with startOf(day) <= clock <=
\* endOf(day); startOf(day) of the start and endOf(day) of the end are equal
\* to the start and to the end.
C21_DayBounds ==
    /\ StartOfDayDone =>
          /\ cal.r.tz = cal.x.tz
          /\ Cal_LocalDay(cal.r) = Cal_LocalDay(cal.x)
          /\ Cal_MinuteOfDay(cal.r) = 0
          /\ cal.r.min <= cal.x.min
          /\ Cal_startOf(cal.r, "day", cal.ws) = cal.r
    /\ EndOfDayDone =>
          /\ cal.r.tz = cal.x.tz
          /\ Cal_LocalDay(cal.r) = Cal_LocalDay(cal.x)
          /\ Cal_MinuteOfDay(cal.r) = MIN_PER_DAY - 5
          /\ cal.x.min <= cal.r.min
          /\ Cal_endOf(cal.r, "day", cal.ws) = cal.r

\* startOf(day) of a Seoul clock at 09:35 (00:35 UTC): midnight of the local
\* day, which is in the previous UTC day
C21_Witness ==
    /\ StartOfDayDone
    /\ cal.x.tz = SEOUL
    /\ Cal_MinuteOfDay(cal.x) = 9 * MIN_PER_HOUR + 35
    /\ Cal_MinuteOfDay(cal.r) = 0
    /\ Floor(cal.r.min, MIN_PER_DAY) = Floor(cal.x.min, MIN_PER_DAY) - 1

SetTimeDone == pc = "setTime"

Cal_Reports(d) == [getTime |-> d.min, tz |-> d.tz, view |-> Cal_Fields(d)]

----------------------------------------------------------------------------
(* Lane choice of compute(), read from its result and its processing order *)

\* the LayoutState of the i-th entry compute() processed
Placed(i) == state[sorted[i].id]

\* the lanes in use before the i-th entry is placed
LanesBefore(i) == {Placed(p).stackLevel : p \in 1..(i - 1)}

\* the entry placed last in lane j before the i-th entry
LastInLane(i, j) ==
    CHOOSE p \in 1..(i - 1) :
        /\ Placed(p).stackLevel = j
        /\ \A q \in 1..(i - 1) : Placed(q).stackLevel = j => q <= p

\* laneEnd[j] before the i-th entry is placed: startPos + spanLength of the
\* entry placed last in lane j
LaneEndBefore(i, j) == Placed(LastInLane(i, j)).startPos + Placed(LastInLane(i, j)).spanLength

\* the lane of the first-fit rule for the i-th entry: the lowest lane with
\* laneEnd <= the entry's recorded (clamped) startPos, or else a new lane
FirstFit(i) ==
    LET fit == {j \in LanesBefore(i) : LaneEndBefore(i, j) <= Placed(i).startPos}
    IN IF fit = {} THEN Cardinality(LanesBefore(i))
       ELSE CHOOSE j \in fit : \A k \in fit : j <= k

\* C25: compute() gives each entry the lowest lane i with laneEnd[i] <= the
\* entry's clamped startPos, or a new lane when none qualifies; so for an
\* entry with stackLevel k > 0 each lane j < k holds an earlier-placed entry
\* whose range contains this entry's startPos, and the stackLevels of a
\* result are exactly 0..L-1.
C25_FirstFit ==
    Done =>
        /\ \A i \in 1..Len(sorted) :
              /\ Placed(i).stackLevel = FirstFit(i)
              /\ \A j \in 0..(Placed(i).stackLevel - 1) :
                    \E p \in 1..(i - 1) :
                        /\ Placed(p).stackLevel = j
                        /\ Placed(i).startPos \in RangeOf(Placed(p))
        /\ {state[k].stackLevel : k \in DOMAIN state} = 0..(LanesUsed - 1)

\* the lane of the rule compute() follows: the lowest lane with laneEnd <=
\* the entry's offset from the window start before the clamp (negative for
\* an entry that starts before the window), or else a new lane
FirstFitUnclamped(i) ==
    LET fit == {j \in LanesBefore(i) :
                   LaneEndBefore(i, j) <= FirstDay(sorted[i]) - WinFirst}
    IN IF fit = {} THEN Cardinality(LanesBefore(i))
       ELSE CHOOSE j \in fit : \A k \in fit : j <= k

\* every entry handed to compute() has a day inside the window
PreFiltered == \A e \in ArgSet : Intersects(e)

\* C25 (amended): compute() gives each entry the lowest lane i with
\* laneEnd[i] <= the entry's offset before the clamp, or a new lane when
\* none qualifies, and the stackLevels of a result are exactly 0..L-1; when
\* every entry intersects the window this is the lowest lane with
\* laneEnd[i] <= the clamped startPos, and for an entry with stackLevel
\* k > 0 each lane j < k holds an earlier-placed entry whose range contains
\* this entry's startPos.
C25_FirstFitPreFiltered ==
    Done =>
        /\ \A i \in 1..Len(sorted) : Placed(i).stackLevel = FirstFitUnclamped(i)
        /\ {state[k].stackLevel : k \in DOMAIN state} = 0..(LanesUsed - 1)
        /\ PreFiltered =>
              \A i \in 1..Len(sorted) :
                  /\ Placed(i).stackLevel = FirstFit(i)
                  /\ \A j \in 0..(Placed(i).stackLevel - 1) :
                        \E p \in 1..(i - 1) :
                            /\ Placed(p).stackLevel = j
                            /\ Placed(i).startPos \in RangeOf(Placed(p))

\* three pre-filtered entries, the third in lane 2 and starting before the
\* window, and a lane reused by a later entry
C25_Witness ==
    /\ Done /\ PreFiltered /\ Len(sorted) = 3
    /\ \E i \in 1..3 : Placed(i).stackLevel = 2 /\ FirstDay(sorted[i]) < WinFirst

\* two entries that end before the window: the second one is put in lane 1
\* although laneEnd[0] = 0 is not beyond its clamped startPos 0
C25_ClampedMiss ==
    /\ Done /\ Len(sorted) = 2
    /\ Placed(1).stackLevel = 0 /\ Placed(1).startPos + Placed(1).spanLength = 0
    /\ Placed(2).startPos = 0 /\ Placed(2).stackLevel = 1

----------------------------------------------------------------------------
(* compute() on the permutations of its input *)

\* the arrays that hold the elements of arr in another order
Reorderings(arr) ==
    {[i \in 1..Len(arr) |-> arr[p[i]]] :
        p \in {q \in [1..Len(arr) -> 1..Len(arr)] :
                  \A i \in 1..Len(arr) : \A j \in 1..Len(arr) :
                      q[i] = q[j] => i = j}}

\* the entries of the call differ pairwise in start, end or all-day flag
PairwiseDifferent ==
    \A i \in 1..Len(args) : \A j \in 1..Len(args) :
        i # j => \/ args[i].startDate # args[j].startDate
                 \/ args[i].endDate # args[j].endDate
                 \/ args[i].allDay # args[j].allDay

\* C26: for entry lists that are permutations of each other (entries
\* pairwise different in start, end or all-day flag) and the same window,
\* compute() gives every entry id the same startPos, spanLength and
\* stackLevel.
C26_OrderIndependent ==
    (Done /\ PairwiseDifferent) =>
        \A other \in Reorderings(args) :
            compute(ArraySort(other), duration) = state

----------------------------------------------------------------------------
(* Entry: a config is a function from field names to values; a field that   *)
(* is undefined is not in its domain.  Of the fields that only ride along   *)
(* (title, description, tags, priority, ...) the model keeps title and      *)
(* completed.                                                                *)

\* config[k] !== undefined
Has(config, k) == k \in DOMAIN config

\* { ...a, ...b }
Spread(x, y) ==
    [k \in (DOMAIN x) \cup (DOMAIN y) |-> IF k \in DOMAIN y THEN y[k] ELSE x[k]]

\* { ...config, k: undefined } for the keys k
Without(config, keys) == [k \in (DOMAIN config) \ keys |-> config[k]]

DEFAULT_DURATION_MINUTES == 30

\* config.allDay ?? false
AllDayOrFalse(config) == IF Has(config, "allDay") THEN config.allDay ELSE FALSE

\* Entry.factory(config): a ScheduledEntry, an UnscheduledEntry or the error
Entry_factory(config) ==
    IF Has(config, "startDate") /\ Has(config, "endDate")
    THEN [threw |-> FALSE, scheduled |-> TRUE,
          config |-> Spread(config, [allDay |-> AllDayOrFalse(config)])]
    ELSE IF ~Has(config, "startDate") /\ ~Has(config, "endDate")
    THEN [threw |-> FALSE, scheduled |-> FALSE, config |-> config]
    ELSE IF ~Has(config, "startDate")
    THEN [threw |-> TRUE]
    ELSE [threw |-> FALSE, scheduled |-> TRUE,
          config |-> Spread(config,
                            [endDate |-> add(config.startDate,
                                             DEFAULT_DURATION_MINUTES, "minute"),
                             allDay |-> AllDayOrFalse(config)])]

\* entry.update(patch)
Entry_update(this, patch) ==
    IF ~Has(patch, "startDate")
    THEN Entry_factory(Without(this.config, {"startDate", "endDate", "allDay"}))
    ELSE Entry_factory(Spread(this.config, patch))

----------------------------------------------------------------------------
(* CalendarEngine *)

\* const { id, startDate, endDate, allDay } = config
Engine_ref(config) ==
    EntryRef(config.id, config.startDate, config.endDate, config.allDay)

\* engine.add(config): the new state
Engine_add(st, config) == Append(st, Engine_ref(config))

\* engine.delete(id): the new state
Engine_delete(st, id) == SelectSeq(st, LAMBDA e : e.id # id)

\* engine.update(id, patch): the new state
Engine_update(st, id, patch) ==
    [i \in 1..Len(st) |-> IF st[i].id = id THEN Spread(st[i], patch) ELSE st[i]]

\* engine.search(range) throws: the Duration of a stored entry cannot be built
Engine_searchThrows(st, range) ==
    \E i \in 1..Len(st) : DurationThrows(st[i].startDate, st[i].endDate)

\* the search of the earlier engine: ranges that only touch do not overlap
Engine_searchExclusive(st, range) ==
    ArraySort(SelectSeq(st, LAMBDA e :
        isOverlapStrict(Duration(e.startDate, e.endDate), range)))

\* engine.search(range) when it does not throw
Engine_search(st, range) ==
    ArraySort(SelectSeq(st, LAMBDA e :
        isOverlap(Duration(e.startDate, e.endDate), range)))

----------------------------------------------------------------------------
(* The engine program: entries made by Entry.factory are added to, updated  *)
(* in and deleted from a CalendarEngine, which is searched                   *)

\* the number of calls made on the engine
MaxCalls == 4

\* the instants of the entries: 09:00 and 10:00 of day 0, 09:00 of day 1
EngineClock(k) ==
    CASE k = 0 -> At(0, 9 * 60, SEOUL)
      [] k = 1 -> At(0, 10 * 60, SEOUL)
      [] OTHER -> At(1, 9 * 60, SEOUL)

\* the fields every config has
BaseConfig(id) == [id |-> id, title |-> "old", completed |-> FALSE]

\* the configs handed to Entry.factory
FactoryConfigs ==
    { Spread(BaseConfig(1), [startDate |-> EngineClock(0), endDate |-> EngineClock(1)]),
      Spread(BaseConfig(2), [startDate |-> EngineClock(1), endDate |-> EngineClock(2),
                             allDay |-> TRUE]),
      Spread(BaseConfig(2), [startDate |-> EngineClock(0)]),
      Spread(BaseConfig(3), [startDate |-> EngineClock(2), endDate |-> EngineClock(1)]),
      Spread(BaseConfig(1), [startDate |-> EngineClock(1), endDate |-> EngineClock(1),
                             allDay |-> FALSE]),
      BaseConfig(3),
      Spread(BaseConfig(3), [endDate |-> EngineClock(1)]) }

\* the configs of the ScheduledEntry values Entry.factory returns for them
ScheduledConfigs ==
    {Entry_factory(c).config :
        c \in {k \in FactoryConfigs : /\ ~Entry_factory(k).threw
                                      /\ Entry_factory(k).scheduled}}

EntryIds == {1, 2, 3}

\* the ranges searched: the instant 10:00 of day 0, and day 1
SearchRanges ==
    {Duration(EngineClock(1), EngineClock(1)),
     Duration(At(1, 0, SEOUL), At(1, 23 * 60 + 55, SEOUL))}

NoRange == Duration(NoClock, NoClock)

\* the engine after a call, with the call and the engine before it
EngineAfter(st, op, id, range, threw, result) ==
    [state |-> st, op |-> op, id |-> id, range |-> range, threw |-> threw,
     result |-> result, before |-> eng.state, calls |-> eng.calls + 1,
     prevOp |-> eng.op, prevId |-> eng.id, prevBefore |-> eng.before]

\* new CalendarEngine()
InitEngine ==
    /\ pc = "engine"
    /\ eng = [state |-> <<>>, op |-> "new", id |-> 0, range |-> NoRange,
              threw |-> FALSE, result |-> <<>>, before |-> <<>>, calls |-> 0,
              prevOp |-> "new", prevId |-> 0, prevBefore |-> <<>>]
    /\ iv = <<>> /\ cal = <<>>
    /\ pool = <<>> /\ entries = <<>> /\ duration = <<>> /\ args = <<>>
    /\ state = <<>> /\ sorted = <<>>
    /\ rawA = 0 /\ rawB = 0 /\ a = NoClock /\ b = NoClock /\ cmp = <<>>

\* engine.add(entry)
EngineAdd(config) ==
    /\ pc = "engine" /\ eng.calls < MaxCalls
    /\ eng' = EngineAfter(Engine_add(eng.state, config), "add", config.id,
                          NoRange, FALSE, <<>>)
    /\ UNCHANGED <<pc, iv, cal>> /\ UNCHANGED layoutVars /\ UNCHANGED clockVars

\* engine.delete(id)
EngineDelete(id) ==
    /\ pc = "engine" /\ eng.calls < MaxCalls
    /\ eng' = EngineAfter(Engine_delete(eng.state, id), "delete", id,
                          NoRange, FALSE, <<>>)
    /\ UNCHANGED <<pc, iv, cal>> /\ UNCHANGED layoutVars /\ UNCHANGED clockVars

\* engine.update(entry.id, { startDate, endDate, allDay } of the entry)
EngineUpdate(config) ==
    /\ pc = "engine" /\ eng.calls < MaxCalls
    /\ eng' = EngineAfter(
                  Engine_update(eng.state, config.id,
                                [startDate |-> config.startDate,
                                 endDate |-> config.endDate,
                                 allDay |-> config.allDay]),
                  "update", config.id, NoRange, FALSE, <<>>)
    /\ UNCHANGED <<pc, iv, cal>> /\ UNCHANGED layoutVars /\ UNCHANGED clockVars

\* engine.search(range)
EngineSearch(range) ==
    /\ pc = "engine" /\ eng.calls < MaxCalls
    /\ eng' = IF Engine_searchThrows(eng.state, range)
              THEN EngineAfter(eng.state, "search", 0, range, TRUE, <<>>)
              ELSE EngineAfter(eng.state, "search", 0, range, FALSE,
                               Engine_search(eng.state, range))
    /\ UNCHANGED <<pc, iv, cal>> /\ UNCHANGED layoutVars /\ UNCHANGED clockVars

NextEngine ==
    \/ \E config \in ScheduledConfigs : EngineAdd(config)
    \/ \E id \in EntryIds : EngineDelete(id)
    \/ \E config \in ScheduledConfigs : EngineUpdate(config)
    \/ \E range \in SearchRanges : EngineSearch(range)

SpecEngine == InitEngine /\ [][NextEngine]_vars

----------------------------------------------------------------------------
(* Properties of the CalendarEngine *)

Searched == pc = "engine" /\ eng.op = "search"

\* every stored entry has startDate <= endDate
StoredOrdered(st) ==
    \A i \in 1..Len(st) : getTime(st[i].startDate) <= getTime(st[i].endDate)

\* the closed interval of the entry and the closed range have a common instant
OverlapsClosed(e, range) ==
    /\ getTime(e.startDate) <= getTime(range.endDate)
    /\ getTime(e.endDate) >= getTime(range.startDate)

\* the number of places of the array that hold e
Occurrences(arr, e) == Cardinality({i \in 1..Len(arr) : arr[i] = e})

\* C27: search(range), in a state whose entries satisfy start <= end, returns
\* exactly the entries of the state whose closed interval overlaps the closed
\* range (touching endpoints included), each stored entry once, ordered by
\* sortEntries, and leaves the state of the engine as it was.
C27_SearchExact ==
    (Searched /\ StoredOrdered(eng.before)) =>
        /\ ~eng.threw
        /\ \A i \in 1..Len(eng.result) : Occurrences(eng.before, eng.result[i]) > 0
        /\ \A i \in 1..Len(eng.before) :
              Occurrences(eng.result, eng.before[i]) =
                  IF OverlapsClosed(eng.before[i], eng.range)
                  THEN Occurrences(eng.before, eng.before[i])
                  ELSE 0
        /\ \A i \in 1..(Len(eng.result) - 1) :
              sortEntries(eng.result[i], eng.result[i + 1]) <= 0
        /\ eng.state = eng.before

\* of three stored entries the search returns two, one of which only touches
\* the range, in an order that is not the order they are stored in
C27_Witness ==
    /\ Searched /\ ~eng.threw
    /\ Len(eng.before) = 3 /\ Len(eng.result) = 2
    /\ \E i \in 1..2 : getTime(eng.result[i].endDate) = getTime(eng.range.startDate)
    /\ \E i \in 1..3 : \E j \in 1..3 :
          i < j /\ eng.result[1] = eng.before[j] /\ eng.result[2] = eng.before[i]

\* C28: after any sequence of add, update and delete calls no two entries of
\* the state have the same id; delete(id) removes at most one entry,
\* update(id, patch) changes at most one entry, and add followed by delete of
\* the same id restores the state before the add.
C28_UniqueIds ==
    pc = "engine" =>
        /\ \A i \in 1..Len(eng.state) : \A j \in 1..Len(eng.state) :
              i # j => eng.state[i].id # eng.state[j].id
        /\ eng.op = "delete" => Len(eng.before) - Len(eng.state) <= 1
        /\ eng.op = "update" =>
              Cardinality({i \in 1..Len(eng.state) : eng.state[i] # eng.before[i]}) <= 1
        /\ (eng.op = "delete" /\ eng.prevOp = "add" /\ eng.prevId = eng.id)
              => eng.state = eng.prevBefore

\* C29: after any sequence of add, update and delete calls every entry of the
\* state satisfies startDate <= endDate, so search(range) never fails with
\* the error of the Duration constructor.
C29_StoredOrdered ==
    pc = "engine" =>
        /\ StoredOrdered(eng.state)
        /\ eng.op = "search" => ~eng.threw

----------------------------------------------------------------------------
(* The entry program: an entry is made by Entry.factory and updated once *)

\* a patch that names no field
NoFields == [k \in {} |-> TRUE]

\* the patches handed to update: every choice of a new title, a new
\* completed flag, a new startDate and a new endDate or allDay flag
EntryPatches ==
    {Spread(Spread(Spread(p1, p2), p3), p4) :
        p1 \in {NoFields, [title |-> "new"]},
        p2 \in {NoFields, [completed |-> TRUE]},
        p3 \in {NoFields, [startDate |-> EngineClock(1)], [startDate |-> EngineClock(2)]},
        p4 \in {NoFields, [endDate |-> EngineClock(2)], [allDay |-> TRUE],
                [endDate |-> EngineClock(2), allDay |-> TRUE]}}

InitEntry ==
    /\ pc = "entry"
    /\ eng = <<>>
    /\ iv = <<>> /\ cal = <<>>
    /\ pool = <<>> /\ entries = <<>> /\ duration = <<>> /\ args = <<>>
    /\ state = <<>> /\ sorted = <<>>
    /\ rawA = 0 /\ rawB = 0 /\ a = NoClock /\ b = NoClock /\ cmp = <<>>

\* entry = Entry.factory(config)
Factory(config) ==
    /\ pc = "entry"
    /\ pc' = "made"
    /\ eng' = [made |-> Entry_factory(config)]
    /\ UNCHANGED <<iv, cal>> /\ UNCHANGED layoutVars /\ UNCHANGED clockVars

\* r = entry.update(patch)
Update(patch) ==
    /\ pc = "made"
    /\ ~eng.made.threw
    /\ pc' = "updated"
    /\ eng' = [this |-> eng.made, patch |-> patch, r |-> Entry_update(eng.made, patch)]
    /\ UNCHANGED <<iv, cal>> /\ UNCHANGED layoutVars /\ UNCHANGED clockVars

NextEntry ==
    \/ \E config \in FactoryConfigs : Factory(config)
    \/ \E patch \in EntryPatches : Update(patch)

SpecEntry == InitEntry /\ [][NextEntry]_vars

\* the fields of an entry the model keeps
EntryFields == {"id", "title", "completed", "startDate", "endDate", "allDay"}

\* the two configs report the same value for the field k
SameField(x, y, k) ==
    /\ Has(x, k) = Has(y, k)
    /\ Has(x, k) => x[k] = y[k]

\* C30: update(patch) returns an entry in which exactly the fields named in
\* the patch are replaced and every other field keeps its value; a scheduled
\* entry updated with a patch that does not mention startDate keeps its
\* startDate, endDate and allDay and stays scheduled.
C30_UpdateReplacesPatch ==
    pc = "updated" =>
        /\ ~eng.r.threw
        /\ \A k \in EntryFields :
              SameField(eng.r.config,
                        IF Has(eng.patch, k) THEN eng.patch ELSE eng.this.config, k)
        /\ (eng.this.scheduled /\ ~Has(eng.patch, "startDate")) => eng.r.scheduled

\* a scheduled entry updated with a new title only: the result is unscheduled
\* and has the old title
C30_TitleOnly ==
    /\ pc = "updated"
    /\ eng.this.scheduled /\ DOMAIN eng.patch = {"title"}
    /\ ~eng.r.scheduled /\ eng.r.config.title = eng.this.config.title

====
